---------------------------- MODULE Spec2Model ----------------------------
(***************************************************************************)
(* Verification model of four pieces of the botpress repository:           *)
(*   - the TrainNow widget    (modules/nlu/src/views/full/common)          *)
(*   - the Dropdown widget    (src/bp/ui-shared/src/Dropdown)              *)
(*   - the carousel renderer  (builtin content type, render)               *)
(*   - the NLU HTTP server    (POST /train, GET /train/:id, POST /predict) *)
(* Each piece has its own specification over its own variables; the        *)
(* variables of the other pieces are held still.                           *)
(***************************************************************************)
EXTENDS Integers, Sequences, FiniteSets, TLC

VARIABLES
  \* ---- TrainNow widget
  autoTrain,      \* prop: selects the label of the train button
  loading,        \* useState(true)
  training,       \* useState(false)
  cancelling,     \* useState(false)
  fetchPc,        \* position of fetchIsTraining: "unmounted", "awaiting", "done", "failed"
  trainPending,   \* number of api.train() calls not yet settled
  cancelPending,  \* number of api.cancelTraining() calls not yet settled
  observedDone,   \* history: a done/canceled event was handled since the last trainNow()
  \* ---- NLU HTTP server
  sessions,       \* trainSessionService: modelId -> TrainSession, for the tracked ids
  jobs,           \* trainService: modelId -> password, for the trainings in progress
  store,          \* modelService: the persisted models
  loaded,         \* engine: language code -> modelId of the model loaded for it
  pc,             \* per request: position of its route handler
  request,        \* per request: route, params and body
  local,          \* per request: the handler's local bindings
  response,       \* per request: the response sent, or Undefined
  calls,          \* per request, history: how often the handler called each collaborator
  \* ---- Dropdown widget
  props,          \* the props of the Dropdown: items, defaultItem, confirmChange
  activeItem,     \* useState<Option | undefined>()
  dialogs,        \* the options whose confirmDialog(...) promise is not yet settled
  observed,       \* history: the calls made to the caller's callbacks, in order
  \* ---- carousel renderer
  data,           \* the content element handed to renderElement
  channel,        \* the channel handed to renderElement
  output          \* Returned(payload) or Thrown(message) of renderElement; Undefined before the call

widgetVars == <<autoTrain, loading, training, cancelling, fetchPc, trainPending, cancelPending, observedDone>>

serverVars == <<sessions, jobs, store, loaded, pc, request, local, response, calls>>

dropdownVars == <<props, activeItem, dialogs, observed>>

rendererVars == <<data, channel, output>>

vars == <<widgetVars, serverVars, dropdownVars, rendererVars>>

\* What the actions of each piece leave alone.
notWidget == <<serverVars, dropdownVars, rendererVars>>
notServer == <<widgetVars, dropdownVars, rendererVars>>
notDropdown == <<widgetVars, serverVars, rendererVars>>
notRenderer == <<widgetVars, serverVars, dropdownVars>>

\* undefined where a string is expected, and where an object is expected.
None == "undefined"
Undefined == [undefined |-> TRUE]

(***************************************************************************)
(* TrainNow widget                                                         *)
(***************************************************************************)

\* Bound on the api.train() / api.cancelTraining() calls in flight at once.
MaxPendingCalls == 3

EventTypes == {"nlu", "other"}
SessionStatuses == {"training", "done", "canceled", "errored"}

WidgetInit ==
  /\ autoTrain \in BOOLEAN
  /\ loading = TRUE
  /\ training = FALSE
  /\ cancelling = FALSE
  /\ fetchPc = "unmounted"
  /\ trainPending = 0
  /\ cancelPending = 0
  /\ observedDone = FALSE

\* Both effects of the first commit: fetchIsTraining() runs up to its await,
\* and the statusbar.event handler is subscribed.
Mount ==
  /\ fetchPc = "unmounted"
  /\ loading' = TRUE
  /\ fetchPc' = "awaiting"
  /\ UNCHANGED <<notWidget, autoTrain, training, cancelling, trainPending, cancelPending, observedDone>>

\* api.isTraining() resolves with isTraining.
FetchIsTrainingResolve(isTraining) ==
  /\ fetchPc = "awaiting"
  /\ training' = isTraining
  /\ loading' = FALSE
  /\ fetchPc' = "done"
  /\ UNCHANGED <<notWidget, autoTrain, cancelling, trainPending, cancelPending, observedDone>>

\* api.isTraining() rejects: nothing after the await runs.
FetchIsTrainingReject ==
  /\ fetchPc = "awaiting"
  /\ fetchPc' = "failed"
  /\ UNCHANGED <<notWidget, autoTrain, loading, training, cancelling, trainPending, cancelPending, observedDone>>

isDoneOrCancelled(status) == status = "done" \/ status = "canceled"

\* The statusbar.event handler, subscribed at mount.
StatusbarEvent(type, status) ==
  /\ fetchPc # "unmounted"
  /\ IF type = "nlu" /\ isDoneOrCancelled(status)
       THEN /\ training' = FALSE
            /\ cancelling' = FALSE
            /\ observedDone' = TRUE
       ELSE UNCHANGED <<training, cancelling, observedDone>>
  /\ UNCHANGED <<notWidget, autoTrain, loading, fetchPc, trainPending, cancelPending>>

\* What the render shows: the cancel button when training, the train button
\* otherwise; a Button with loading or disabled set takes no click.
TrainButtonClickable == ~training /\ ~loading
CancelButtonClickable == training /\ ~cancelling /\ ~loading

\* The button the render returns: its kind, its label key, whether it takes a click.
Rendered ==
  IF training
    THEN [button |-> "cancel", label |-> "module.nlu.cancelTraining",
          clickable |-> CancelButtonClickable]
    ELSE [button |-> "train",
          label |-> IF autoTrain THEN "module.nlu.retrainAll" ELSE "module.nlu.trainNow",
          clickable |-> TrainButtonClickable]

\* onClick of the train button: trainNow() up to its await.
TrainNowClick ==
  /\ fetchPc # "unmounted"
  /\ Rendered.button = "train" /\ Rendered.clickable
  /\ trainPending < MaxPendingCalls
  /\ training' = TRUE
  /\ trainPending' = trainPending + 1
  /\ observedDone' = FALSE
  /\ UNCHANGED <<notWidget, autoTrain, loading, cancelling, fetchPc, cancelPending>>

\* api.train() settles (resolved or rejected): trainNow() has nothing after its await.
TrainSettle ==
  /\ trainPending > 0
  /\ trainPending' = trainPending - 1
  /\ UNCHANGED <<notWidget, autoTrain, loading, training, cancelling, fetchPc, cancelPending, observedDone>>

\* onClick of the cancel button: cancelTraining() up to its await.
CancelTrainingClick ==
  /\ fetchPc # "unmounted"
  /\ Rendered.button = "cancel" /\ Rendered.clickable
  /\ cancelPending < MaxPendingCalls
  /\ cancelPending' = cancelPending + 1
  /\ UNCHANGED <<notWidget, autoTrain, loading, training, cancelling, fetchPc, trainPending, observedDone>>

\* api.cancelTraining() resolves: setCancelling(true).
CancelTrainingResolve ==
  /\ cancelPending > 0
  /\ cancelPending' = cancelPending - 1
  /\ cancelling' = TRUE
  /\ UNCHANGED <<notWidget, autoTrain, loading, training, fetchPc, trainPending, observedDone>>

\* api.cancelTraining() rejects: setCancelling is not reached.
CancelTrainingReject ==
  /\ cancelPending > 0
  /\ cancelPending' = cancelPending - 1
  /\ UNCHANGED <<notWidget, autoTrain, loading, training, cancelling, fetchPc, trainPending, observedDone>>

WidgetNext ==
  \/ Mount
  \/ \E b \in BOOLEAN : FetchIsTrainingResolve(b)
  \/ FetchIsTrainingReject
  \/ \E t \in EventTypes, s \in SessionStatuses : StatusbarEvent(t, s)
  \/ TrainNowClick
  \/ TrainSettle
  \/ CancelTrainingClick
  \/ CancelTrainingResolve
  \/ CancelTrainingReject

\* The widget before it is mounted, for the specifications of the other pieces.
WidgetIdle == WidgetInit /\ autoTrain = FALSE

(***************************************************************************)
(* NLU HTTP server                                                         *)
(***************************************************************************)

\* Number of HTTP requests a behaviour handles; they may all be in flight at once.
NumRequests == 2

Requests == 1..NumRequests

Resp(status, body) == [status |-> status, body |-> body]

\* raced: another request unloaded this request's language after this request's
\* loadModel resolved and before its predict settled.
NoCalls == [train |-> 0, getModel |-> 0, loadModel |-> 0, unloadModel |-> 0, raced |-> FALSE]

\* No request has arrived.
RequestsInit ==
  /\ pc = [r \in Requests |-> "idle"]
  /\ request = [r \in Requests |-> Undefined]
  /\ local = [r \in Requests |-> Undefined]
  /\ response = [r \in Requests |-> Undefined]
  /\ calls = [r \in Requests |-> NoCalls]

\* The server right after start-up: nothing tracked, persisted or loaded.
ServerIdle ==
  /\ sessions = << >>
  /\ jobs = << >>
  /\ store = {}
  /\ loaded = << >>
  /\ RequestsInit

\* f with key k bound to v (a dictionary assignment).
Put(f, k, v) == [x \in (DOMAIN f) \cup {k} |-> IF x = k THEN v ELSE f[x]]

\* f without key k (a dictionary delete).
Del(f, k) == [x \in (DOMAIN f) \ {k} |-> f[x]]

\* res.send(...) / res.status(s).send(...): the handler is done.
Send(r, resp) ==
  /\ response' = [response EXCEPT ![r] = resp]
  /\ pc' = [pc EXCEPT ![r] = "responded"]

\* trainSessionService.getTrainingSession(modelId)
getTrainingSession(modelId) ==
  IF modelId \in DOMAIN sessions THEN sessions[modelId] ELSE Undefined

\* modelService.getModel(modelId, password): the model persisted under that id
\* and that password, or undefined.
getModel(modelId, password) ==
  IF \E m \in store : m.modelId = modelId /\ m.password = password
    THEN CHOOSE m \in store : m.modelId = modelId /\ m.password = password
    ELSE Undefined

\* password ?? ''
PasswordOrEmpty(password) == IF password = None THEN "" ELSE password


(* ---- POST /train ---- *)

Languages == {"en", "fr"}
Seeds == {0, 1}

\* topics: an object topic name -> intents, as its entries in insertion order.
\* TopicsAB and TopicsA hold the same intents, grouped differently.
TopicsAB == << <<"a", <<"greet">>>>, <<"b", <<"bye">>>> >>
TopicsA == << <<"a", <<"greet", "bye">>>> >>
TopicsC == << <<"c", <<"greet">>>> >>
TopicsSets == {TopicsAB, TopicsA, TopicsC}

EntitySets == {<< >>, <<"city">>}

\* Request bodies: the valid ones, one with a field the schema does not know,
\* and one the schema rejects (no language).
TrainBodies ==
  [topics : TopicsSets, entities : EntitySets, language : Languages,
   password : {"pw"}, seed : Seeds]
  \cup {[topics |-> TopicsA, entities |-> << >>, language |-> "en",
         password |-> "pw", seed |-> 0, extra |-> "x"]}
  \cup {[topics |-> TopicsA, entities |-> << >>, language |-> None,
         password |-> "pw", seed |-> 0]}

\* validate(body, TrainInputCreateSchema, {stripUnknown: true}) rejects.
ValidateThrows(body) == body.language \notin Languages

\* validate(...) resolves with the schema's fields only.
validate(body) ==
  [topics |-> body.topics, entities |-> body.entities, language |-> body.language,
   password |-> body.password, seed |-> body.seed]

\* Object.values(topics)
ObjectValues(topics) == [i \in 1..Len(topics) |-> topics[i][2]]

RECURSIVE flatMap(_)
\* _.flatMap(arrays)
flatMap(arrays) ==
  IF arrays = << >> THEN << >> ELSE Head(arrays) \o flatMap(Tail(arrays))

\* engine.computeModelHash: a hash of exactly its three arguments.
computeModelHash(intents, entities, language) ==
  [hashOf |-> <<intents, entities, language>>]

\* modelService.makeModelId: an id made of the hash, the language and the seed.
makeModelId(modelHash, language, seed) == <<modelHash, language, seed>>

\* Mutant: hashes the topics object, not the flattened intents.
TrainModelId_HashTopics(input) ==
  makeModelId(computeModelHash(input.topics, input.entities, input.language),
              input.language, input.seed)

\* The modelId the handler derives from the validated input.
TrainModelId(input) ==
  LET intents == flatMap(ObjectValues(input.topics))
      modelHash == computeModelHash(intents, input.entities, input.language)
  IN  makeModelId(modelHash, input.language, input.seed)

\* trainService.train(modelId, password, intents, entities, language), up to
\* its first await: the training session is tracked as training.
TrainServiceTrain(modelId, password, language) ==
  /\ sessions' = Put(sessions, modelId,
                     [status |-> "training", progress |-> 0, language |-> language])
  /\ jobs' = Put(jobs, modelId, password)

\* A training in progress completes: its model is persisted, its session is done.
TrainingFinishes(modelId) ==
  /\ modelId \in DOMAIN jobs
  /\ sessions' = Put(sessions, modelId,
                     [sessions[modelId] EXCEPT !.status = "done", !.progress = 1])
  /\ store' = {m \in store : ~(m.modelId = modelId /\ m.password = jobs[modelId])}
                \cup {[modelId |-> modelId, password |-> jobs[modelId],
                       languageCode |-> sessions[modelId].language]}
  /\ jobs' = Del(jobs, modelId)
  /\ UNCHANGED <<notServer, loaded, pc, request, local, response, calls>>

\* The request arrives; the handler runs up to `await validate(...)`.
PostTrain(r, body) ==
  /\ pc[r] = "idle"
  /\ request' = [request EXCEPT ![r] = [route |-> "POST /train", body |-> body]]
  /\ pc' = [pc EXCEPT ![r] = "validate"]
  /\ UNCHANGED <<notServer, sessions, jobs, store, loaded, local, response, calls>>

\* Mutant: starts the training before the model id is computed.
PostTrainValidated_TrainFirst(r, hashOk) ==
  /\ pc[r] = "validate"
  /\ IF ValidateThrows(request[r].body)
       THEN /\ Send(r, Resp(500, [success |-> FALSE, error |-> "ValidationError"]))
            /\ UNCHANGED <<sessions, jobs, local, calls>>
       ELSE LET input == validate(request[r].body)
                modelId == TrainModelId(input)
            IN  /\ TrainServiceTrain(modelId, input.password, input.language)
                /\ calls' = [calls EXCEPT ![r].train = @ + 1]
                /\ local' = [local EXCEPT ![r] = [input |-> input, modelId |-> modelId]]
                /\ IF hashOk
                     THEN Send(r, Resp(200, [success |-> TRUE, modelId |-> modelId]))
                     ELSE Send(r, Resp(500, [success |-> FALSE, error |-> "HashError"]))
  /\ UNCHANGED <<notServer, store, loaded, request>>

\* validate() settles and the rest of the handler runs to its response:
\* hashOk tells whether computeModelHash / makeModelId return or throw.
PostTrainValidated(r, hashOk) ==
  /\ pc[r] = "validate"
  /\ IF ValidateThrows(request[r].body)
       THEN /\ Send(r, Resp(500, [success |-> FALSE, error |-> "ValidationError"]))
            /\ UNCHANGED <<sessions, jobs, local, calls>>
       ELSE LET input == validate(request[r].body)
            IN  IF ~hashOk
                  THEN /\ Send(r, Resp(500, [success |-> FALSE, error |-> "HashError"]))
                       /\ local' = [local EXCEPT ![r] = [input |-> input]]
                       /\ UNCHANGED <<sessions, jobs, calls>>
                  ELSE LET modelId == TrainModelId(input)
                       IN  /\ TrainServiceTrain(modelId, input.password, input.language)
                           /\ calls' = [calls EXCEPT ![r].train = @ + 1]
                           /\ local' = [local EXCEPT ![r] =
                                          [input |-> input, modelId |-> modelId]]
                           /\ Send(r, Resp(200, [success |-> TRUE, modelId |-> modelId]))
  /\ UNCHANGED <<notServer, store, loaded, request>>

\* Every modelId a POST /train of this model can produce.
TrainModelIds == {TrainModelId(validate(body)) : body \in {b \in TrainBodies : ~ValidateThrows(b)}}

TrainRouteNext ==
  \/ \E r \in Requests, body \in TrainBodies : PostTrain(r, body)
  \/ \E r \in Requests, hashOk \in BOOLEAN : PostTrainValidated(r, hashOk)
  \/ \E modelId \in TrainModelIds : TrainingFinishes(modelId)

(* ---- GET /train/:modelId ---- *)

\* The model ids of the GET and predict requests, and the language of each.
ModelIds == {"m1", "m2"}
LanguageOfId(modelId) == IF modelId = "m1" THEN "en" ELSE "fr"

\* The passwords a request body may carry; None: the body has no password.
Passwords == {None, "", "pw"}

\* Models that earlier trainings may have persisted: m1 without a password,
\* m2 under the password "pw".
PersistedModels ==
  {[modelId |-> "m1", password |-> "", languageCode |-> "en"],
   [modelId |-> "m2", password |-> "pw", languageCode |-> "fr"]}

\* A server that has been running: some models are persisted, and some
\* trainings (started with the password "pw") are in progress.
ServerRunning ==
  /\ store \in SUBSET PersistedModels
  /\ \E T \in SUBSET ModelIds :
       /\ sessions = [id \in T |-> [status |-> "training", progress |-> 0,
                                     language |-> LanguageOfId(id)]]
       /\ jobs = [id \in T |-> "pw"]
  /\ loaded = << >>
  /\ RequestsInit

\* A POST /train for modelId is handled meanwhile: its training starts.
TrainingStarts(modelId) ==
  /\ modelId \notin DOMAIN jobs
  /\ TrainServiceTrain(modelId, "pw", LanguageOfId(modelId))
  /\ UNCHANGED <<notServer, store, loaded, pc, request, local, response, calls>>

SessionResponse(session) == Resp(200, [success |-> TRUE, session |-> session])

NotFoundResponse == Resp(404, [success |-> FALSE, error |-> "no model or training could be found"])

\* Mutant: looks the model up first and only then the session.
GetTrain_ModelFirst(r, modelId, password) ==
  /\ pc[r] = "idle"
  /\ request' = [request EXCEPT ![r] =
                   [route |-> "GET /train/:modelId", modelId |-> modelId, password |-> password]]
  /\ local' = [local EXCEPT ![r] = [session |-> getTrainingSession(modelId)]]
  /\ calls' = [calls EXCEPT ![r].getModel = @ + 1]
  /\ pc' = [pc EXCEPT ![r] = "getModel"]
  /\ UNCHANGED response
  /\ UNCHANGED <<notServer, sessions, jobs, store, loaded>>

\* The request arrives; the handler runs up to `await modelService.getModel`,
\* or to its response when a session is tracked.
GetTrain(r, modelId, password) ==
  /\ pc[r] = "idle"
  /\ request' = [request EXCEPT ![r] =
                   [route |-> "GET /train/:modelId", modelId |-> modelId, password |-> password]]
  /\ LET session == getTrainingSession(modelId)
     IN  /\ local' = [local EXCEPT ![r] = [session |-> session]]
         /\ IF session # Undefined
              THEN /\ Send(r, SessionResponse(session))
                   /\ UNCHANGED calls
              ELSE /\ calls' = [calls EXCEPT ![r].getModel = @ + 1]
                   /\ pc' = [pc EXCEPT ![r] = "getModel"]
                   /\ UNCHANGED response
  /\ UNCHANGED <<notServer, sessions, jobs, store, loaded>>

\* getModel settles and the handler runs to its response; throws tells whether
\* getModel rejects.
GetTrainModelSettled(r, throws) ==
  /\ pc[r] = "getModel"
  /\ request[r].route = "GET /train/:modelId"
  /\ IF throws
       THEN Send(r, Resp(500, [success |-> FALSE, error |-> "getModel failed"]))
       ELSE LET model == getModel(request[r].modelId, PasswordOrEmpty(request[r].password))
            IN  IF model = Undefined
                  THEN Send(r, NotFoundResponse)
                  ELSE Send(r, SessionResponse([status |-> "done", progress |-> 1,
                                                language |-> model.languageCode]))
  /\ UNCHANGED <<notServer, sessions, jobs, store, loaded, request, local, calls>>

StatusRouteNext ==
  \/ \E r \in Requests, modelId \in ModelIds, password \in Passwords :
       GetTrain(r, modelId, password)
  \/ \E r \in Requests, throws \in BOOLEAN : GetTrainModelSettled(r, throws)
  \/ \E modelId \in ModelIds : TrainingStarts(modelId)
  \/ \E modelId \in ModelIds : TrainingFinishes(modelId)

(* ---- POST /predict/:modelId ---- *)

Sentences == {"hello"}

\* A server with some models persisted and no training going on.
ServerWithModels ==
  /\ store \in SUBSET PersistedModels
  /\ sessions = << >>
  /\ jobs = << >>
  /\ loaded = << >>
  /\ RequestsInit

PredictRoute(r) == request[r].route = "POST /predict/:modelId"

\* engine.loadModel(model): the model is the one loaded for its language.
EngineLoadModel(model) == Put(loaded, model.languageCode, model.modelId)

\* engine.unloadModel(languageCode)
EngineUnloadModel(languageCode) == Del(loaded, languageCode)

\* engine.predict(sentence, [], languageCode) needs a model loaded for the language.
EngineHasModel(languageCode) == languageCode \in DOMAIN loaded

EnginePrediction(sentence, languageCode) ==
  [sentence |-> sentence, language |-> languageCode, model |-> loaded[languageCode]]

ErrorResponse(message) == Resp(404, [success |-> FALSE, error |-> message])

\* The request arrives; the handler runs up to `await modelService.getModel`.
PostPredict(r, modelId, sentence, password) ==
  /\ pc[r] = "idle"
  /\ request' = [request EXCEPT ![r] =
                   [route |-> "POST /predict/:modelId", modelId |-> modelId,
                    sentence |-> sentence, password |-> password]]
  /\ calls' = [calls EXCEPT ![r].getModel = @ + 1]
  /\ pc' = [pc EXCEPT ![r] = "getModel"]
  /\ UNCHANGED <<notServer, sessions, jobs, store, loaded, local, response>>

\* getModel settles; with a model the handler runs up to `await engine.loadModel`.
PredictModelSettled(r, throws) ==
  /\ pc[r] = "getModel"
  /\ PredictRoute(r)
  /\ IF throws
       THEN /\ Send(r, ErrorResponse("getModel failed"))
            /\ UNCHANGED local
       ELSE LET model == getModel(request[r].modelId, PasswordOrEmpty(request[r].password))
            IN  IF model = Undefined
                  THEN /\ Send(r, ErrorResponse("modelId can't be found"))
                       /\ UNCHANGED local
                  ELSE /\ local' = [local EXCEPT ![r] = [model |-> model]]
                       /\ pc' = [pc EXCEPT ![r] = "loadModel"]
                       /\ UNCHANGED response
  /\ UNCHANGED <<notServer, sessions, jobs, store, loaded, request, calls>>

\* Mutant: goes on to predict without the engine having loaded the model.
PredictLoadSettled_NoLoad(r, throws) ==
  /\ pc[r] = "loadModel"
  /\ IF throws
       THEN /\ Send(r, ErrorResponse("loadModel failed"))
            /\ UNCHANGED <<loaded, calls>>
       ELSE /\ calls' = [calls EXCEPT ![r].loadModel = @ + 1, ![r].raced = FALSE]
            /\ pc' = [pc EXCEPT ![r] = "predict"]
            /\ UNCHANGED <<loaded, response>>
  /\ UNCHANGED <<notServer, sessions, jobs, store, request, local>>

\* engine.loadModel settles; when it resolved the handler runs up to
\* `await engine.predict`.
PredictLoadSettled(r, throws) ==
  /\ pc[r] = "loadModel"
  /\ IF throws
       THEN /\ Send(r, ErrorResponse("loadModel failed"))
            /\ UNCHANGED <<loaded, calls>>
       ELSE /\ loaded' = EngineLoadModel(local[r].model)
            /\ calls' = [calls EXCEPT ![r].loadModel = @ + 1, ![r].raced = FALSE]
            /\ pc' = [pc EXCEPT ![r] = "predict"]
            /\ UNCHANGED response
  /\ UNCHANGED <<notServer, sessions, jobs, store, request, local>>

\* The requests, other than r, that have loaded a model of this language and
\* whose engine.predict has not settled.
AwaitingPredict(r, languageCode) ==
  {q \in Requests \ {r} :
     pc[q] = "predict" /\ local[q].model.languageCode = languageCode}

\* engine.predict settles; when it resolved the handler unloads the model and
\* sends the prediction, otherwise the catch block answers.
PredictSettled(r, throws) ==
  /\ pc[r] = "predict"
  /\ LET languageCode == local[r].model.languageCode
     IN  IF throws \/ ~EngineHasModel(languageCode)
           THEN /\ Send(r, ErrorResponse("predict failed"))
                /\ UNCHANGED <<loaded, calls>>
           ELSE /\ loaded' = EngineUnloadModel(languageCode)
                /\ calls' = [q \in Requests |->
                               IF q = r THEN [calls[q] EXCEPT !.unloadModel = @ + 1]
                               ELSE IF q \in AwaitingPredict(r, languageCode)
                                      THEN [calls[q] EXCEPT !.raced = TRUE]
                                      ELSE calls[q]]
                /\ Send(r, Resp(200, [success |-> TRUE,
                                      prediction |-> EnginePrediction(request[r].sentence,
                                                                      languageCode)]))
  /\ UNCHANGED <<notServer, sessions, jobs, store, request, local>>

PredictRouteNext ==
  \/ \E r \in Requests, modelId \in ModelIds, sentence \in Sentences, password \in Passwords :
       PostPredict(r, modelId, sentence, password)
  \/ \E r \in Requests, throws \in BOOLEAN : PredictModelSettled(r, throws)
  \/ \E r \in Requests, throws \in BOOLEAN : PredictLoadSettled(r, throws)
  \/ \E r \in Requests, throws \in BOOLEAN : PredictSettled(r, throws)

(***************************************************************************)
(* Dropdown widget                                                         *)
(***************************************************************************)

\* Bound on the item selections of a behaviour.
MaxSelections == 3

OptionOne == [label |-> "One", value |-> "1"]
OptionTwo == [label |-> "Two", value |-> "2"]
Items == <<OptionOne, OptionTwo>>

\* defaultItem: a string (an option's value), an Option, or undefined.
DefaultItems ==
  {[typeof |-> "undefined"],
   [typeof |-> "string", string |-> "2"],
   [typeof |-> "string", string |-> "3"],
   [typeof |-> "object", option |-> OptionOne]}

\* confirmChange: undefined, or {message, acceptLabel, callback?}; hasCallback
\* tells whether the optional callback is given.
ConfirmChanges ==
  {Undefined}
  \cup [message : {"Sure?"}, acceptLabel : {"Change"}, hasCallback : BOOLEAN]

RECURSIVE find(_, _)
\* items.find(item => item.value === value)
find(items, value) ==
  IF items = << >> THEN Undefined
  ELSE IF Head(items).value = value THEN Head(items)
  ELSE find(Tail(items), value)

\* typeof defaultItem === 'string' ? items.find(...) : defaultItem
ActiveItemFor(defaultItem, items) ==
  IF defaultItem.typeof = "string" THEN find(items, defaultItem.string)
  ELSE IF defaultItem.typeof = "object" THEN defaultItem.option
  ELSE Undefined

\* After the first commit: the defaultItem effect has run.
DropdownInit ==
  /\ props \in [items : {Items}, defaultItem : DefaultItems, confirmChange : ConfirmChanges]
  /\ activeItem = ActiveItemFor(props.defaultItem, props.items)
  /\ dialogs = << >>
  /\ observed = << >>

\* The parent passes another defaultItem: the effect sets activeItem.
DefaultItemChanges(defaultItem) ==
  /\ defaultItem # props.defaultItem
  /\ props' = [props EXCEPT !.defaultItem = defaultItem]
  /\ activeItem' = ActiveItemFor(defaultItem, props.items)
  /\ UNCHANGED <<notDropdown, dialogs, observed>>

\* The text of the button.
btnText == IF activeItem # Undefined THEN activeItem.label ELSE "placeholder"

\* The selections made so far, and the number of the next one.
SelectionIds == {observed[i].id : i \in DOMAIN observed}
NextSelection == Cardinality(SelectionIds) + 1

\* confirmChange.callback?.(isOpen): a call only when the callback is given.
CallbackCall(confirmChange, id, isOpen) ==
  IF confirmChange.hasCallback
    THEN << [id |-> id, call |-> "callback", isOpen |-> isOpen] >>
    ELSE << >>

\* updateSelectedOption(option)
updateSelectedOption(id, option) == << [id |-> id, call |-> "onChange", option |-> option] >>

\* onItemSelect(option), up to `await confirmDialog(...)` with confirmChange,
\* to its end without.
ItemSelect(option) ==
  /\ NextSelection <= MaxSelections
  /\ LET id == NextSelection
         selected == << [id |-> id, call |-> "select", option |-> option] >>
     IN  IF props.confirmChange # Undefined
           THEN /\ observed' = observed \o selected
                                \o CallbackCall(props.confirmChange, id, TRUE)
                                \o << [id |-> id, call |-> "confirmDialog",
                                       message |-> props.confirmChange.message,
                                       acceptLabel |-> props.confirmChange.acceptLabel] >>
                /\ dialogs' = Append(dialogs, [id |-> id, option |-> option])
           ELSE /\ observed' = observed \o selected \o updateSelectedOption(id, option)
                /\ UNCHANGED dialogs
  /\ UNCHANGED <<notDropdown, props, activeItem>>

\* s without its i-th element.
RemoveAt(s, i) == SubSeq(s, 1, i - 1) \o SubSeq(s, i + 1, Len(s))

\* Mutant: commits the change whatever the dialog resolved to.
DialogSettles_AlwaysCommit(i, accepted) ==
  /\ i \in DOMAIN dialogs
  /\ LET id == dialogs[i].id
         settled == << [id |-> id, call |-> "dialogResult", accepted |-> accepted] >>
     IN  observed' = observed \o settled
                       \o CallbackCall(props.confirmChange, id, FALSE)
                       \o updateSelectedOption(id, dialogs[i].option)
  /\ dialogs' = RemoveAt(dialogs, i)
  /\ UNCHANGED <<notDropdown, props, activeItem>>

\* confirmDialog(...) resolves with accepted; onItemSelect runs to its end.
DialogSettles(i, accepted) ==
  /\ i \in DOMAIN dialogs
  /\ LET id == dialogs[i].id
         settled == << [id |-> id, call |-> "dialogResult", accepted |-> accepted] >>
     IN  IF accepted
           THEN observed' = observed \o settled
                              \o CallbackCall(props.confirmChange, id, FALSE)
                              \o updateSelectedOption(id, dialogs[i].option)
           ELSE observed' = observed \o settled
                              \o CallbackCall(props.confirmChange, id, FALSE)
  /\ dialogs' = RemoveAt(dialogs, i)
  /\ UNCHANGED <<notDropdown, props, activeItem>>

DropdownNext ==
  \/ \E defaultItem \in DefaultItems : DefaultItemChanges(defaultItem)
  \/ \E i \in 1..Len(Items) : ItemSelect(Items[i])
  \/ \E i \in 1..MaxSelections, accepted \in BOOLEAN : DialogSettles(i, accepted)

(***************************************************************************)
(* Carousel renderer                                                       *)
(***************************************************************************)

\* Bounds on the cards of a carousel and on the action buttons of all its cards.
MaxCards == 2
MaxButtons == 2

\* Strings that are taken apart (urls, paths) are sequences of pieces.
BotUrl == <<"https://bot.example">>

\* The actions a card may carry; the last is of a kind the renderer does not know.
CardActions ==
  {[action |-> "Say something", title |-> "Say", text |-> "hello"],
   [action |-> "Open URL", title |-> "Docs", url |-> <<"BOT_URL", "/docs">>],
   [action |-> "Open URL", title |-> "Site", url |-> <<"https://ext.example">>],
   [action |-> "Open URL", title |-> "Nowhere"],
   [action |-> "Postback", title |-> "Post", payload |-> "PAYLOAD"],
   [action |-> "Pick from list", title |-> "Pick"]}

ActionLists(n) == UNION {[1..k -> CardActions] : k \in 0..n}

\* The cards with at most n actions: with or without an image, with or
\* without an actions array.
CardsUpTo(n) ==
  LET bare == {[title |-> "A", subtitle |-> "sub"],
               [title |-> "A", subtitle |-> "sub", image |-> <<"/a.png">>]}
  IN  bare \cup {[title |-> "A", subtitle |-> "sub", actions |-> as] : as \in ActionLists(n)}
           \cup {[title |-> "A", subtitle |-> "sub", image |-> <<"/a.png">>, actions |-> as] :
                   as \in ActionLists(n)}

ActionCount(card) == IF "actions" \in DOMAIN card THEN Len(card.actions) ELSE 0

RECURSIVE CardLists(_, _)
\* The lists of at most nCards cards carrying at most nButtons actions in all.
CardLists(nCards, nButtons) ==
  IF nCards = 0 THEN {<< >>}
  ELSE {<< >>} \cup UNION {{<<card>> \o rest :
                              rest \in CardLists(nCards - 1, nButtons - ActionCount(card))} :
                           card \in CardsUpTo(nButtons)}

Thrown(message) == [thrown |-> message]
Returned(value) == [returned |-> value]
Null == [null |-> TRUE]

RECURSIVE replace(_, _, _)
\* String.prototype.replace(pattern, replacement): the first occurrence only.
replace(string, pattern, replacement) ==
  IF string = << >> THEN << >>
  ELSE IF Head(string) = pattern THEN replacement \o Tail(string)
  ELSE <<Head(string)>> \o replace(Tail(string), pattern, replacement)

\* The button of one action: Returned(button), or Thrown for an unknown kind.
button(a, d) ==
  IF a.action = "Say something"
    THEN Returned([type |-> "say_something", title |-> a.title, text |-> a.text])
  ELSE IF a.action = "Open URL"
    THEN IF "url" \in DOMAIN a
           THEN Returned([type |-> "open_url", title |-> a.title,
                          url |-> replace(a.url, "BOT_URL", d.BOT_URL)])
           ELSE Returned([type |-> "open_url", title |-> a.title])
  ELSE IF a.action = "Postback"
    THEN Returned([type |-> "postback", title |-> a.title, payload |-> a.payload])
  ELSE Thrown(<<"Webchat carousel does not support", a.action>>)

RECURSIVE mapButtons_SkipUnknown(_, _)
\* Mutant: an action of an unknown kind is skipped.
mapButtons_SkipUnknown(actions, d) ==
  IF actions = << >> THEN Returned(<< >>)
  ELSE LET first == button(Head(actions), d)
           rest == mapButtons_SkipUnknown(Tail(actions), d)
       IN  IF "thrown" \in DOMAIN first THEN rest
           ELSE Returned(<<first.returned>> \o rest.returned)

RECURSIVE mapButtons(_, _)
\* (card.actions || []).map(a => ...): the first throw ends the map.
mapButtons(actions, d) ==
  IF actions = << >> THEN Returned(<< >>)
  ELSE LET first == button(Head(actions), d)
       IN  IF "thrown" \in DOMAIN first THEN first
           ELSE LET rest == mapButtons(Tail(actions), d)
                IN  IF "thrown" \in DOMAIN rest THEN rest
                    ELSE Returned(<<first.returned>> \o rest.returned)

\* One element of the carousel.
element(card, d) ==
  LET buttons == mapButtons(IF "actions" \in DOMAIN card THEN card.actions ELSE << >>, d)
  IN  IF "thrown" \in DOMAIN buttons THEN buttons
      ELSE Returned([title |-> card.title,
                     picture |-> IF "image" \in DOMAIN card
                                   THEN d.BOT_URL \o card.image ELSE Null,
                     subtitle |-> card.subtitle,
                     buttons |-> buttons.returned])

RECURSIVE mapElements(_, _)
\* data.items.map(card => ...)
mapElements(cards, d) ==
  IF cards = << >> THEN Returned(<< >>)
  ELSE LET first == element(Head(cards), d)
       IN  IF "thrown" \in DOMAIN first THEN first
           ELSE LET rest == mapElements(Tail(cards), d)
                IN  IF "thrown" \in DOMAIN rest THEN rest
                    ELSE Returned(<<first.returned>> \o rest.returned)

render(d) ==
  LET events == IF d.typing THEN << [type |-> "typing", value |-> d.typing] >> ELSE << >>
      elements == mapElements(d.items, d)
  IN  IF "thrown" \in DOMAIN elements THEN elements
      ELSE Returned(events \o << [text |-> " ", type |-> "carousel",
                                  collectFeedback |-> d.collectFeedback,
                                  elements |-> elements.returned] >>)

\* The channels base.renderer has a template for, and the ones tried here.
TemplatedChannels == {"web", "slack", "teams", "messenger", "telegram", "twilio"}
Channels == {"web", "api"}

\* base.renderer(data, 'carousel'): the channel template's payload.
baseRenderer(d, type) == Returned(<< [type |-> type, template |-> TRUE] >>)

renderElement(d, ch) ==
  IF ch \in TemplatedChannels THEN baseRenderer(d, "carousel") ELSE render(d)

\* A content element is handed over.
RendererInit ==
  /\ data \in [typing : BOOLEAN, collectFeedback : {FALSE}, BOT_URL : {BotUrl},
               items : CardLists(MaxCards, MaxButtons)]
  /\ channel = None
  /\ output = Undefined

\* renderElement(data, ch) is called.
RenderElement(ch) ==
  /\ output = Undefined
  /\ channel' = ch
  /\ output' = renderElement(data, ch)
  /\ UNCHANGED <<notRenderer, data>>

RendererNext == \E ch \in Channels : RenderElement(ch)

(***************************************************************************)
(* Specifications                                                          *)
(***************************************************************************)

\* The Dropdown and the renderer before use.
DropdownIdle ==
  /\ props = Undefined
  /\ activeItem = Undefined
  /\ dialogs = << >>
  /\ observed = << >>

RendererIdle ==
  /\ data = Undefined
  /\ channel = None
  /\ output = Undefined

InitTrainNow == WidgetInit /\ ServerIdle /\ DropdownIdle /\ RendererIdle

SpecTrainNow == InitTrainNow /\ [][WidgetNext]_vars

InitTrain == WidgetIdle /\ ServerIdle /\ DropdownIdle /\ RendererIdle

SpecTrain == InitTrain /\ [][TrainRouteNext]_vars

InitStatus == WidgetIdle /\ ServerRunning /\ DropdownIdle /\ RendererIdle

SpecStatus == InitStatus /\ [][StatusRouteNext]_vars

InitDropdown == WidgetIdle /\ ServerIdle /\ DropdownInit /\ RendererIdle

SpecDropdown == InitDropdown /\ [][DropdownNext]_vars

InitRenderer == WidgetIdle /\ ServerIdle /\ DropdownIdle /\ RendererInit

SpecRenderer == InitRenderer /\ [][RendererNext]_vars

InitPredict == WidgetIdle /\ ServerWithModels /\ DropdownIdle /\ RendererIdle

SpecPredict == InitPredict /\ [][PredictRouteNext]_vars


(***************************************************************************)
(* Claims                                                                  *)
(***************************************************************************)

(* ---- TrainNow widget ---- *)

\* C1: once a done or canceled 'nlu' event has been handled, and until
\* trainNow() is next invoked, the widget is in the initial trainable state:
\* training = false and cancelling = false.
C1_IdleAfterDoneUntilTrainNow ==
  observedDone => (~training /\ ~cancelling)

\* C2: every invocation of trainNow() leaves the control in cancelling-capable
\* mode: the cancel button is shown (training) and enabled (not cancelling).
C2_TrainNowRendersCancelCapable ==
  [][TrainNowClick => (Rendered.button = "cancel" /\ ~cancelling)']_vars

\* C10: cancelling = true implies training = true in every reachable state.
C10_CancellingImpliesTraining ==
  cancelling => training

(* ---- POST /train ---- *)

TrainAnswered(r) == pc[r] = "responded" /\ request[r].route = "POST /train"
TrainSucceeded(r) == TrainAnswered(r) /\ response[r].status = 200
IntentsOf(r) == flatMap(ObjectValues(local[r].input.topics))

SameTrainingData(r1, r2) ==
  /\ IntentsOf(r1) = IntentsOf(r2)
  /\ local[r1].input.entities = local[r2].input.entities
  /\ local[r1].input.language = local[r2].input.language

C8_TrainStartedOncePerSuccess ==
  /\ [](\A r \in Requests :
          /\ pc[r] = "validate" => calls[r].train = 0
          /\ (TrainAnswered(r) /\ response[r].status = 200) => calls[r].train = 1
          /\ (TrainAnswered(r) /\ response[r].status = 500) => calls[r].train = 0
          /\ TrainAnswered(r) => response[r].status \in {200, 500})
  /\ [][\A r \in Requests :
          (pc[r] = "validate" /\ pc'[r] = "responded" /\ response'[r].status = 200)
            => response'[r].body.modelId \in DOMAIN jobs']_vars

\* One request answered 200 whose training is still running, another answered 500.
C8_Witness ==
  \E r1, r2 \in Requests :
    /\ TrainSucceeded(r1) /\ calls[r1].train = 1
    /\ response[r1].body.modelId \in DOMAIN jobs
    /\ sessions[response[r1].body.modelId].status = "training"
    /\ TrainAnswered(r2) /\ response[r2].status = 500 /\ calls[r2].train = 0

(* ---- GET /train/:modelId ---- *)

StatusRoute(r) == request[r].route = "GET /train/:modelId"

\* C5: a GET /train/:modelId is answered with the tracked session, without a
\* call of getModel, whenever trainSessionService tracks the modelId when the
\* handler runs; otherwise it awaits getModel and is then answered with the
\* synthesized done session when getModel returns a model for the password
\* (undefined password read as ''), and with 404 exactly when getModel
\* returns none (500 when getModel throws).
C5_GetTrainAnswers ==
  [][\A r \in Requests :
       /\ (pc[r] = "idle" /\ pc'[r] # "idle" /\ StatusRoute(r)')
            => IF request'[r].modelId \in DOMAIN sessions
                 THEN /\ pc'[r] = "responded"
                      /\ response'[r] = Resp(200, [success |-> TRUE,
                                                   session |-> sessions[request'[r].modelId]])
                      /\ calls'[r].getModel = 0
                 ELSE /\ pc'[r] = "getModel"
                      /\ response'[r] = Undefined
       /\ (pc[r] = "getModel" /\ StatusRoute(r) /\ pc'[r] = "responded")
            => LET password == IF request[r].password = None THEN "" ELSE request[r].password
                   models == {m \in store : m.modelId = request[r].modelId
                                            /\ m.password = password}
               IN  /\ response'[r].status \in {200, 404, 500}
                   /\ response'[r].status = 404 => models = {}
                   /\ models = {} => response'[r].status \in {404, 500}
                   /\ response'[r].status = 200
                        => \E m \in models :
                             response'[r].body =
                               [success |-> TRUE,
                                session |-> [status |-> "done", progress |-> 1,
                                             language |-> m.languageCode]]]_vars

\* One request without a password answered with the synthesized done session
\* of a model persisted under '', another answered 404 although a model of its
\* id is persisted (under another password).
C5_Witness ==
  \E r1, r2 \in Requests :
    /\ pc[r1] = "responded" /\ StatusRoute(r1)
    /\ request[r1].password = None
    /\ response[r1].status = 200 /\ response[r1].body.session.status = "done"
    /\ calls[r1].getModel = 1
    /\ pc[r2] = "responded" /\ StatusRoute(r2)
    /\ response[r2].status = 404
    /\ \E m \in store : m.modelId = request[r2].modelId

(* ---- POST /predict/:modelId ---- *)

PredictAnswered(r) == pc[r] = "responded" /\ PredictRoute(r)

\* C3: every POST /predict request whose engine.loadModel loaded a model has
\* called engine.unloadModel by the time it is answered, on every path.
C3_LoadedModelUnloadedBeforeResponse ==
  \A r \in Requests :
    (PredictAnswered(r) /\ calls[r].loadModel > 0) => calls[r].unloadModel > 0

\* C9: the load/unload state of the engine is not protected: a request that
\* has loaded its model and awaits engine.predict can find the language
\* unloaded, and that happens only when another request's engine.unloadModel
\* ran after this request's loadModel completed (the race is reachable: see
\* the witness).
C9_UnloadedOnlyByARacingRequest ==
  \A r \in Requests :
    (pc[r] = "predict" /\ ~EngineHasModel(local[r].model.languageCode))
      => calls[r].raced

\* A request between its loadModel and its predict whose language another
\* request has just unloaded.
C9_Witness ==
  \E r, q \in Requests :
    /\ r # q
    /\ pc[r] = "predict" /\ calls[r].raced
    /\ ~EngineHasModel(local[r].model.languageCode)
    /\ PredictAnswered(q) /\ calls[q].unloadModel = 1
    /\ request[q].modelId = request[r].modelId

(* ---- Dropdown ---- *)

\* The calls of selection id, in order.
TraceOf(id) == SelectSeq(observed, LAMBDA e : e.id = id)

\* What a selection of `option` may have observably done so far under
\* confirmChange c: opened the dialog; or, after the dialog resolved, closed
\* it with or without the change.
ExpectedTraces(id, option, c) ==
  LET selected == << [id |-> id, call |-> "select", option |-> option] >>
      onChange == << [id |-> id, call |-> "onChange", option |-> option] >>
      callback(isOpen) == IF c.hasCallback
                            THEN << [id |-> id, call |-> "callback", isOpen |-> isOpen] >>
                            ELSE << >>
      result(accepted) == << [id |-> id, call |-> "dialogResult", accepted |-> accepted] >>
      opened == selected \o callback(TRUE)
                  \o << [id |-> id, call |-> "confirmDialog", message |-> c.message,
                         acceptLabel |-> c.acceptLabel] >>
  IN  [pending |-> opened,
       accepted |-> opened \o result(TRUE) \o callback(FALSE) \o onChange,
       rejected |-> opened \o result(FALSE) \o callback(FALSE)]

\* C7: with confirmChange, a selection calls callback(true) (when the optional
\* callback is given) and then opens the dialog; once the dialog resolves it
\* calls callback(false) and then, if and only if the dialog was accepted,
\* onChange(option); a rejected dialog never calls onChange. Without
\* confirmChange the selection calls onChange(option) at once.
C7_ConfirmGatesOnChange ==
  \A id \in SelectionIds :
    LET t == TraceOf(id)
        option == t[1].option
    IN  /\ t[1].call = "select"
        /\ IF props.confirmChange = Undefined
             THEN t = << t[1], [id |-> id, call |-> "onChange", option |-> option] >>
             ELSE LET e == ExpectedTraces(id, option, props.confirmChange)
                  IN  IF \E i \in DOMAIN dialogs : dialogs[i].id = id
                        THEN t = e.pending
                        ELSE t = e.accepted \/ t = e.rejected

\* With a callback given: one selection whose dialog was accepted and one
\* whose dialog was rejected, both run to their end.
C7_Witness ==
  /\ props.confirmChange # Undefined
  /\ props.confirmChange.hasCallback
  /\ dialogs = << >>
  /\ \E i, j \in DOMAIN observed :
       /\ observed[i].call = "dialogResult" /\ observed[i].accepted
       /\ observed[j].call = "dialogResult" /\ ~observed[j].accepted
       /\ \E k \in DOMAIN observed :
            /\ k > i
            /\ observed[k].call = "onChange" /\ observed[k].id = observed[i].id

(* ---- Carousel renderer ---- *)

SupportedActions == {"Say something", "Open URL", "Postback"}

ActionsOf(card) == IF "actions" \in DOMAIN card THEN card.actions ELSE << >>

\* Some action of some card is of an unsupported kind.
HasUnsupportedAction ==
  \E i \in DOMAIN data.items :
    \E j \in DOMAIN ActionsOf(data.items[i]) :
      ActionsOf(data.items[i])[j].action \notin SupportedActions

\* The button b has the shape the kind of action a asks for.
ButtonMatches(b, a) ==
  /\ b.title = a.title
  /\ a.action = "Say something" => b = [type |-> "say_something", title |-> a.title, text |-> a.text]
  /\ a.action = "Open URL" =>
       /\ b.type = "open_url"
       /\ DOMAIN b \subseteq {"type", "title", "url"}
       /\ ("url" \in DOMAIN b) = ("url" \in DOMAIN a)
       /\ ("url" \in DOMAIN a /\ \A k \in DOMAIN a.url : a.url[k] # "BOT_URL") => b.url = a.url
  /\ a.action = "Postback" => b = [type |-> "postback", title |-> a.title, payload |-> a.payload]

\* C6: render maps every action of kind Say something / Open URL / Postback to
\* a say_something (title, text) / open_url (title, url) / postback (title,
\* payload) button, one button per action in order; and when any action of any
\* card is of another kind the whole render throws and returns no payload.
C6_RenderMapsOrThrows ==
  (output # Undefined /\ channel \notin TemplatedChannels) =>
    IF HasUnsupportedAction
      THEN DOMAIN output = {"thrown"}
      ELSE /\ DOMAIN output = {"returned"}
           /\ LET carousel == output.returned[Len(output.returned)]
              IN  /\ carousel.type = "carousel"
                  /\ Len(carousel.elements) = Len(data.items)
                  /\ \A i \in DOMAIN data.items :
                       LET as == ActionsOf(data.items[i])
                           bs == carousel.elements[i].buttons
                       IN  /\ Len(bs) = Len(as)
                           /\ \A j \in DOMAIN as : ButtonMatches(bs[j], as[j])

\* render threw on a carousel whose first card has a supported button and
\* whose second card has an unsupported one: nothing of the first card is returned.
C6_Witness ==
  /\ output # Undefined /\ channel \notin TemplatedChannels
  /\ Len(data.items) = 2
  /\ Len(ActionsOf(data.items[1])) = 1
  /\ ActionsOf(data.items[1])[1].action = "Open URL"
  /\ Len(ActionsOf(data.items[2])) = 1
  /\ ActionsOf(data.items[2])[1].action \notin SupportedActions
  /\ DOMAIN output = {"thrown"}

=============================================================================
